---- MODULE Spec2Model ----
(***************************************************************************)
(* A model of the MIPS I core of src/src/vm.hpp (class VirtualMachine).    *)
(*                                                                         *)
(* A 32-bit word (C++ `unsigned`) is the pair <<h, l>> of its upper and    *)
(* lower 16 bits, because TLC's integers are themselves 32-bit signed and  *)
(* cannot hold 2^32 - 1.  All arithmetic below is done on the halves and   *)
(* keeps the 32-bit width of the source.                                   *)
(*                                                                         *)
(* Implementation-defined behaviour is fixed to the LP64 ABI of x86-64:    *)
(* int and unsigned are 32 bits, long is 64 bits, short is 16 bits, plain  *)
(* char is signed, conversions to a signed type wrap, and >> and << on a   *)
(* negative int are arithmetic.  Undefined behaviour (signed overflow in   *)
(* mult, division by zero, INT_MIN / -1) is a choice between the outcomes  *)
(* builds produce.                                                         *)
(***************************************************************************)
EXTENDS Integers, Sequences, FiniteSets

VARIABLES registers, memory, ip, hi, lo, i, status, error, log

vars == <<registers, memory, ip, hi, lo, i, status, error, log>>

B8 == 2^8
B15 == 2^15
B16 == 2^16

\* ------------------------------------------------------------------------
\* 32-bit words
\* ------------------------------------------------------------------------

\* The word with upper half h and lower half l.
W(h, l) == <<h, l>>

\* A small non-negative integer as a word.
Lit(n) == <<n \div B16, n % B16>>

Zero == <<0, 0>>

\* Bitwise operations, bit by bit on integers below 16 ...
RECURSIVE AndBits(_, _)
AndBits(x, y) ==
  IF x = 0 \/ y = 0 THEN 0
  ELSE (IF (x % 2) = 1 /\ (y % 2) = 1 THEN 1 ELSE 0)
       + (2 * AndBits(x \div 2, y \div 2))

RECURSIVE OrBits(_, _)
OrBits(x, y) ==
  IF x = 0 THEN y
  ELSE IF y = 0 THEN x
  ELSE (IF (x % 2) = 1 \/ (y % 2) = 1 THEN 1 ELSE 0)
       + (2 * OrBits(x \div 2, y \div 2))

RECURSIVE XorBits(_, _)
XorBits(x, y) ==
  IF x = 0 THEN y
  ELSE IF y = 0 THEN x
  ELSE (IF (x % 2) # (y % 2) THEN 1 ELSE 0)
       + (2 * XorBits(x \div 2, y \div 2))

And4 == [x \in 0..15 |-> [y \in 0..15 |-> AndBits(x, y)]]
Or4 == [x \in 0..15 |-> [y \in 0..15 |-> OrBits(x, y)]]
Xor4 == [x \in 0..15 |-> [y \in 0..15 |-> XorBits(x, y)]]

\* ... and then four bits at a time on 16-bit halves
And16(x, y) ==
  IF x = 0 \/ y = 0 THEN 0
  ELSE (And4[x \div 4096][y \div 4096] * 4096)
       + (And4[(x \div 256) % 16][(y \div 256) % 16] * 256)
       + (And4[(x \div 16) % 16][(y \div 16) % 16] * 16)
       + And4[x % 16][y % 16]

Or16(x, y) ==
  IF x = 0 THEN y
  ELSE IF y = 0 THEN x
  ELSE (Or4[x \div 4096][y \div 4096] * 4096)
       + (Or4[(x \div 256) % 16][(y \div 256) % 16] * 256)
       + (Or4[(x \div 16) % 16][(y \div 16) % 16] * 16)
       + Or4[x % 16][y % 16]

Xor16(x, y) ==
  IF x = 0 THEN y
  ELSE IF y = 0 THEN x
  ELSE (Xor4[x \div 4096][y \div 4096] * 4096)
       + (Xor4[(x \div 256) % 16][(y \div 256) % 16] * 256)
       + (Xor4[(x \div 16) % 16][(y \div 16) % 16] * 16)
       + Xor4[x % 16][y % 16]

\* a & b, a | b, a ^ b, ~a on unsigned
And32(a, b) == <<And16(a[1], b[1]), And16(a[2], b[2])>>
Or32(a, b) == <<Or16(a[1], b[1]), Or16(a[2], b[2])>>
Xor32(a, b) == <<Xor16(a[1], b[1]), Xor16(a[2], b[2])>>
Not32(a) == <<B16 - 1 - a[1], B16 - 1 - a[2]>>

\* a + b and a - b on unsigned: modulo 2^32
Add32(a, b) ==
  LET l == a[2] + b[2]
  IN  <<(a[1] + b[1] + (l \div B16)) % B16, l % B16>>

Neg32(a) == Add32(Not32(a), <<0, 1>>)

Sub32(a, b) == Add32(a, Neg32(b))

\* a << n and a >> n on unsigned, 0 <= n <= 31 (bits shifted out are lost,
\* zeros are shifted in)
Shl32(a, n) ==
  IF n >= 16
  THEN <<(a[2] * (2^(n - 16))) % B16, 0>>
  ELSE <<((a[1] * (2^n)) % B16) + ((a[2] * (2^n)) \div B16), (a[2] * (2^n)) % B16>>

Shr32(a, n) ==
  IF n >= 16
  THEN <<0, a[1] \div (2^(n - 16))>>
  ELSE <<a[1] \div (2^n), (a[2] \div (2^n)) + ((a[1] % (2^n)) * (2^(16 - n)))>>

\* a < b on unsigned
ULt(a, b) == a[1] < b[1] \/ (a[1] = b[1] /\ a[2] < b[2])

\* The sign bit: static_cast<int>(a) < 0
IsNeg(a) == a[1] >= B15

\* a < b on int (two's complement)
SLt(a, b) ==
  IF IsNeg(a) # IsNeg(b) THEN IsNeg(a) ELSE ULt(a, b)

\* static_cast<short>(x) widened to int: x is 16 bits, bit 15 is the sign
SignExt16(x) == <<IF x >= B15 THEN B16 - 1 ELSE 0, x>>

\* static_cast<char>(b) widened to int: b is 8 bits, bit 7 is the sign
\* (char is signed on the x86-64 builds this models)
SignExt8(b) ==
  IF b >= 128 THEN <<B16 - 1, (B16 - B8) + b>> ELSE <<0, b>>

\* The 64-bit product of a and b as unsigned, as <<upper word, lower word>>
Mul16(x, y) ==
  LET xh == x \div B8  xl == x % B8
      yh == y \div B8  yl == y % B8
      mid == (xh * yl) + (xl * yh)
      low == ((mid % B8) * B8) + (xl * yl)
  IN  <<(xh * yh) + (mid \div B8) + (low \div B16), low % B16>>

UMul64(a, b) ==
  LET p0 == Mul16(a[2], b[2])
      p1 == Mul16(a[1], b[2])
      p2 == Mul16(a[2], b[1])
      p3 == Mul16(a[1], b[1])
      s1 == p0[1] + p1[2] + p2[2]
      s2 == p1[1] + p2[1] + p3[2] + (s1 \div B16)
  IN  << <<(p3[1] + (s2 \div B16)) % B16, s2 % B16>>, <<s1 % B16, p0[2]>> >>

\* The 64-bit product of a and b as int, two's complement
SMul64(a, b) ==
  LET u == UMul64(a, b)
      h1 == IF IsNeg(a) THEN Sub32(u[1], b) ELSE u[1]
      h2 == IF IsNeg(b) THEN Sub32(h1, a) ELSE h1
  IN  <<h2, u[2]>>

\* a * b on unsigned: the product modulo 2^32
Mul32(a, b) == UMul64(a, b)[2]

\* A word below 2^31 as an integer, and back
ToInt(w) == (w[1] * B16) + w[2]

\* a / b and a % b on unsigned, b # 0, as <<quotient, remainder>>.  Operands
\* below 2^31 are divided as integers.  For a >= 2^31 and b < 2^30 the
\* quotient and remainder of a by b follow from those of a >> 1 by b; for
\* b >= 2^30 the quotient is at most 3.
UDivMod(a, b) ==
  IF ULt(a, b) THEN <<Zero, a>>
  ELSE IF a[1] < B15
  THEN <<Lit(ToInt(a) \div ToInt(b)), Lit(ToInt(a) % ToInt(b))>>
  ELSE IF b[1] < 2^14
  THEN LET d == ToInt(b)
           half == ToInt(Shr32(a, 1))
           rest == (2 * (half % d)) + (a[2] % 2)
       IN  <<Add32(Shl32(Lit(half \div d), 1), Lit(rest \div d)), Lit(rest % d)>>
  ELSE LET s1 == Sub32(a, b)
           s2 == Sub32(s1, b)
       IN  IF ULt(s1, b) THEN <<W(0, 1), s1>>
           ELSE IF ULt(s2, b) THEN <<W(0, 2), s2>>
           ELSE <<W(0, 3), Sub32(s2, b)>>

\* a / b and a % b on int, b # 0: the quotient truncates toward zero and the
\* remainder takes the sign of a
SDivMod(a, b) ==
  LET ua == IF IsNeg(a) THEN Neg32(a) ELSE a
      ub == IF IsNeg(b) THEN Neg32(b) ELSE b
      qr == UDivMod(ua, ub)
  IN  <<IF IsNeg(a) # IsNeg(b) THEN Neg32(qr[1]) ELSE qr[1],
        IF IsNeg(a) THEN Neg32(qr[2]) ELSE qr[2]>>

\* ------------------------------------------------------------------------
\* Memory: std::vector<unsigned char>.  memory.size is its size; memory.bytes
\* are the bytes from index memory.base on, and every byte of the vector
\* outside that stretch is zero.
\* ------------------------------------------------------------------------

RECURSIVE Zeros(_)
Zeros(n) == IF n <= 0 THEN <<>> ELSE <<0>> \o Zeros(n - 1)

\* The byte at index a < memory.size
MemGet(m, a) ==
  IF a[1] >= B15 THEN 0
  ELSE LET k == ToInt(a) - m.base
       IN  IF k >= 0 /\ k < Len(m.bytes) THEN m.bytes[k + 1] ELSE 0

\* The vector with byte v at index a < memory.size
MemSet(m, a, v) ==
  LET k == ToInt(a) - m.base
      n == Len(m.bytes)
  IN  IF k >= 0 /\ k < n THEN [m EXCEPT !.bytes[k + 1] = v]
      ELSE IF k >= n THEN [m EXCEPT !.bytes = m.bytes \o Zeros(k - n) \o <<v>>]
      ELSE [m EXCEPT !.base = ToInt(a),
                     !.bytes = <<v>> \o Zeros((0 - k) - 1) \o m.bytes]

\* memory.at(a) does not throw, for an index of type unsigned
UAtOk(a) == ULt(a, memory.size)

\* memory.at(a) does not throw, for an index of type int: a negative int
\* converts to a size_t above every size
IAtOk(a) == ~IsNeg(a) /\ ULt(a, memory.size)

\* ------------------------------------------------------------------------
\* Decoder
\* ------------------------------------------------------------------------

extract(value, kind) ==
  CASE kind = "OP"   -> Shr32(And32(value, W(64512, 0)), 26)     \* 0xFC000000
    [] kind = "RS"   -> Shr32(And32(value, W(992, 0)), 21)       \* 0x03E00000
    [] kind = "RT"   -> Shr32(And32(value, W(31, 0)), 16)        \* 0x001F0000
    [] kind = "RD"   -> Shr32(And32(value, W(0, 63488)), 11)     \* 0x0000F800
    [] kind = "SHMT" -> Shr32(And32(value, W(0, 1984)), 6)       \* 0x000007C0
    [] kind = "FN"   -> And32(value, W(0, 63))                   \* 0x0000003F
    [] kind = "ADDR" -> Shl32(And32(value, W(1023, 65535)), 2)   \* 0x03FFFFFF
    [] kind = "IMMD" -> And32(value, W(0, 65535))                \* 0x0000FFFF

\* The fields cycle() extracts from the instruction; the register numbers,
\* the opcode, the function, the shift amount and the immediate are below
\* 2^16 and kept as integers
Decode(value) ==
  [ins  |-> value,
   op   |-> extract(value, "OP")[2],
   rs   |-> extract(value, "RS")[2],
   rt   |-> extract(value, "RT")[2],
   rd   |-> extract(value, "RD")[2],
   shmt |-> extract(value, "SHMT")[2],
   fn   |-> extract(value, "FN")[2],
   addr |-> extract(value, "ADDR"),
   immd |-> extract(value, "IMMD")[2]]

\* fetch(): the four bytes at ip, big endian; ip + k wraps at 2^32
FetchOk == \A k \in 0..3 : UAtOk(Add32(ip, <<0, k>>))

fetch ==
  Or32(Or32(Or32(Shl32(<<0, MemGet(memory, ip)>>, 24),
                 Shl32(<<0, MemGet(memory, Add32(ip, <<0, 1>>))>>, 16)),
            Shl32(<<0, MemGet(memory, Add32(ip, <<0, 2>>))>>, 8)),
       <<0, MemGet(memory, Add32(ip, <<0, 3>>))>>)

\* ------------------------------------------------------------------------
\* Executor: cycle(), one definition per case of its dispatch
\* ------------------------------------------------------------------------

\* execute(): for (int i = 0; i < 100; ++i)
MaxCycles == 100

\* What the log keeps of a cycle: the state it started in, the word it
\* fetched (Zero when the fetch itself failed) and whether it ran to its
\* break.
Entry(ins, done) ==
  [pc |-> ip, ins |-> ins, R |-> registers, hi |-> hi, lo |-> lo,
   mem |-> memory, done |-> done]

\* The case ran to its break and execute() counts the cycle
Complete(d, R2, M2, ip2, hi2, lo2) ==
  /\ registers' = R2
  /\ memory' = M2
  /\ ip' = ip2
  /\ hi' = hi2
  /\ lo' = lo2
  /\ i' = i + 1
  /\ log' = Append(log, Entry(d.ins, TRUE))
  /\ UNCHANGED <<status, error>>

\* The process ends inside cycle(): exit(1) on a decode error, an uncaught
\* std::out_of_range from at(), or a trap of the division
Halt(kind, ins, M2) ==
  /\ status' = "halted"
  /\ error' = kind
  /\ memory' = M2
  /\ log' = Append(log, Entry(ins, FALSE))
  /\ UNCHANGED <<registers, ip, hi, lo, i>>

SetReg(r, v) == [registers EXCEPT ![r] = v]

Next4 == Add32(ip, <<0, 4>>)

\* Variant: the target without the upper bits of ip
JumpTargetAbsolute(d) == d.addr

\* Variant: the target field taken as a byte address
JumpTargetUnshifted(d) == Or32(And32(ip, W(61440, 0)), Shr32(d.addr, 2))

\* (ip & 0xF0000000) | extract(instruction, ADDR)
JumpTarget(d) == Or32(And32(ip, W(61440, 0)), d.addr)

\* Variant: the immediate added without the shift
BranchTargetUnscaled(d) == Add32(ip, Add32(<<0, 4>>, SignExt16(d.immd)))

\* ip + (4 + (static_cast<short>(immd) << 2)): the shift is done on int
BranchTarget(d) == Add32(ip, Add32(<<0, 4>>, Shl32(SignExt16(d.immd), 2)))

\* int address = static_cast<int>(registers.at(rs)) + static_cast<short>(immd)
IntAddress(d) == Add32(registers[d.rs], SignExt16(d.immd))

\* unsigned address = registers.at(rs) + extract(instruction, IMMD)
UnsignedAddress(d) == Add32(registers[d.rs], <<0, d.immd>>)

J(d) == Complete(d, registers, memory, JumpTarget(d), hi, lo)

\* Variant: the link taken from ip after it was rewritten
JalLinkLate(d) ==
  Complete(d, SetReg(31, Add32(JumpTarget(d), <<0, 4>>)), memory,
           JumpTarget(d), hi, lo)

Jal(d) == Complete(d, SetReg(31, Next4), memory, JumpTarget(d), hi, lo)

\* Variant: the byte widened without its sign
LbValueUnsigned(d) == <<0, MemGet(memory, IntAddress(d))>>

LbValue(d) == SignExt8(MemGet(memory, IntAddress(d)))

Lb(d) ==
  IF IAtOk(IntAddress(d))
  THEN Complete(d, SetReg(d.rt, LbValue(d)), memory, Next4, hi, lo)
  ELSE Halt("memory", d.ins, memory)

Lbu(d) ==
  IF UAtOk(UnsignedAddress(d))
  THEN Complete(d, SetReg(d.rt, <<0, MemGet(memory, UnsignedAddress(d))>>),
                memory, Next4, hi, lo)
  ELSE Halt("memory", d.ins, memory)

\* short value = (at(address) << 8) | at(address + 1)
Lh(d) ==
  LET a1 == Add32(IntAddress(d), <<0, 1>>)
  IN  IF IAtOk(IntAddress(d)) /\ IAtOk(a1)
      THEN Complete(d, SetReg(d.rt, SignExt16((MemGet(memory, IntAddress(d)) * B8)
                                               + MemGet(memory, a1))),
                    memory, Next4, hi, lo)
      ELSE Halt("memory", d.ins, memory)

\* unsigned char value = (at(address) << 8) | at(address + 1): the
\* conversion to unsigned char keeps the low 8 bits
Lhu(d) ==
  LET a1 == Add32(UnsignedAddress(d), <<0, 1>>)
  IN  IF UAtOk(UnsignedAddress(d)) /\ UAtOk(a1)
      THEN Complete(d, SetReg(d.rt, <<0, ((MemGet(memory, UnsignedAddress(d)) * B8)
                                           + MemGet(memory, a1)) % B8>>),
                    memory, Next4, hi, lo)
      ELSE Halt("memory", d.ins, memory)

\* (at(a) << 24) | (at(a + 1) << 16) | (at(a + 2) << 8) | at(a + 3)
ReadWord(m, a) ==
  <<(MemGet(m, a) * B8) + MemGet(m, Add32(a, <<0, 1>>)),
    (MemGet(m, Add32(a, <<0, 2>>)) * B8) + MemGet(m, Add32(a, <<0, 3>>))>>

Lw(d) ==
  IF \A k \in 0..3 : IAtOk(Add32(IntAddress(d), <<0, k>>))
  THEN Complete(d, SetReg(d.rt, ReadWord(memory, IntAddress(d))),
                memory, Next4, hi, lo)
  ELSE Halt("memory", d.ins, memory)

\* unsigned short value = immd << 16 keeps the low 16 bits of the shifted
\* immediate
LuiValue(d) == <<0, Shl32(<<0, d.immd>>, 16)[2]>>

\* The register lui writes: extract(instruction, RD)
LuiDest(d) == d.rd

Lui(d) == Complete(d, SetReg(LuiDest(d), LuiValue(d)), memory, Next4, hi, lo)

\* The bytes of bs written one after the other from index a on; at() throws
\* at the first index out of range and the bytes before it stay written
RECURSIVE StoreBytes(_, _, _)
StoreBytes(m, a, bs) ==
  IF bs = <<>> THEN [mem |-> m, ok |-> TRUE]
  ELSE IF ~IAtOk(a) THEN [mem |-> m, ok |-> FALSE]
  ELSE StoreBytes(MemSet(m, a, Head(bs)), Add32(a, <<0, 1>>), Tail(bs))

Store(d, bs) ==
  LET st == StoreBytes(memory, IntAddress(d), bs)
  IN  IF st.ok
      THEN Complete(d, registers, st.mem, Next4, hi, lo)
      ELSE Halt("memory", d.ins, st.mem)

\* The bytes sb, sh and sw take from registers.at(rt)
ByteOf(w, k) ==
  CASE k = 0 -> Shr32(And32(w, W(65280, 0)), 24)[2]     \* 0xFF000000
    [] k = 1 -> Shr32(And32(w, W(255, 0)), 16)[2]       \* 0x00FF0000
    [] k = 2 -> Shr32(And32(w, W(0, 65280)), 8)[2]      \* 0x0000FF00
    [] k = 3 -> And32(w, W(0, 255))[2]                  \* 0x000000FF

SbBytes(w) == <<ByteOf(w, 3)>>

ShBytes(w) == <<ByteOf(w, 2), ByteOf(w, 3)>>

\* Variant: the least significant byte first
SwBytesLittle(w) == <<ByteOf(w, 3), ByteOf(w, 2), ByteOf(w, 1), ByteOf(w, 0)>>

SwBytes(w) == <<ByteOf(w, 0), ByteOf(w, 1), ByteOf(w, 2), ByteOf(w, 3)>>

Sb(d) == Store(d, SbBytes(registers[d.rt]))

Sh(d) == Store(d, ShBytes(registers[d.rt]))

Sw(d) == Store(d, SwBytes(registers[d.rt]))

\* case 0x08: { break; }
Addi(d) == Complete(d, registers, memory, ip, hi, lo)

AddiuValue(d) == Add32(SignExt16(d.immd), registers[d.rs])

Addiu(d) == Complete(d, SetReg(d.rt, AddiuValue(d)), memory, Next4, hi, lo)

Branch(d, taken) ==
  Complete(d, registers, memory, IF taken THEN BranchTarget(d) ELSE Next4,
           hi, lo)

\* int rs; rs <= 0
Blez(d) == Branch(d, IsNeg(registers[d.rs]) \/ registers[d.rs] = Zero)

\* unsigned rs; rs > 0
Bgtz(d) == Branch(d, ULt(Zero, registers[d.rs]))

Beq(d) == Branch(d, registers[d.rs] = registers[d.rt])

Bne(d) == Branch(d, registers[d.rs] # registers[d.rt])

\* rs ^ immd with short immd: the short is widened to int, with its sign
Xori(d) ==
  Complete(d, SetReg(d.rt, Xor32(registers[d.rs], SignExt16(d.immd))),
           memory, Next4, hi, lo)

\* The cases of the function switch that write registers.at(rd) and add 4
SetRd(d, v) == Complete(d, SetReg(d.rd, v), memory, Next4, hi, lo)

Sll(d) == SetRd(d, Shl32(registers[d.rt], d.shmt))

Srl(d) == SetRd(d, Shr32(registers[d.rt], d.shmt))

SltuValue(d) ==
  IF ULt(registers[d.rs], registers[d.rt]) THEN <<0, 1>> ELSE Zero

Sltu(d) == SetRd(d, SltuValue(d))

\* Variant: the comparison done on unsigned
SltValueUnsigned(d) ==
  IF ULt(registers[d.rs], registers[d.rt]) THEN <<0, 1>> ELSE Zero

SltValue(d) ==
  IF SLt(registers[d.rs], registers[d.rt]) THEN <<0, 1>> ELSE Zero

Slt(d) == SetRd(d, SltValue(d))

Addu(d) == SetRd(d, Add32(registers[d.rs], registers[d.rt]))

\* int sum = rs + rt, stored back as unsigned: the low 32 bits of the sum
Add(d) == SetRd(d, Add32(registers[d.rs], registers[d.rt]))

And(d) == SetRd(d, And32(registers[d.rs], registers[d.rt]))

Or(d) == SetRd(d, Or32(registers[d.rs], registers[d.rt]))

Nor(d) == SetRd(d, Not32(Or32(registers[d.rs], registers[d.rt])))

Xor(d) == SetRd(d, Xor32(registers[d.rs], registers[d.rt]))

\* Variant: the read of hi clears it
MfhiClears(d) == Complete(d, SetReg(d.rd, hi), memory, Next4, Zero, lo)

Mfhi(d) == SetRd(d, hi)

Mflo(d) == SetRd(d, lo)

\* The cases that write hi and lo and add 4
SetHiLo(d, h, l) == Complete(d, registers, memory, Next4, h, l)

\* unsigned long result = rs * rt: the product is taken on unsigned, modulo
\* 2^32, and then widened.  <<hi, lo>>
MultuResult(d) == <<Zero, Mul32(registers[d.rs], registers[d.rt])>>

Multu(d) == SetHiLo(d, MultuResult(d)[1], MultuResult(d)[2])

\* long result = rs * rt on int.  A product that fits an int is widened with
\* its sign.  One that does not is a signed overflow: the build either keeps
\* the low 32 bits and widens them, or multiplies in 64 bits.
MultResults(d) ==
  LET full == SMul64(registers[d.rs], registers[d.rt])
      low == full[2]
      wrapped == <<IF IsNeg(low) THEN W(65535, 65535) ELSE Zero, low>>
  IN  {wrapped, full}

Mult(d) == \E res \in MultResults(d) : SetHiLo(d, res[1], res[2])

\* hi = rs % rt; lo = rs / rt on unsigned.  With rt = 0 the division traps
\* (x86) or yields quotient 0 and remainder rs (AArch64).
DivuResults(d) ==
  IF registers[d.rt] = Zero
  THEN {<<registers[d.rs], Zero>>}
  ELSE LET qr == UDivMod(registers[d.rs], registers[d.rt])
       IN  {<<qr[2], qr[1]>>}

DivuTraps(d) == registers[d.rt] = Zero

Divu(d) ==
  \/ \E res \in DivuResults(d) : SetHiLo(d, res[1], res[2])
  \/ /\ DivuTraps(d)
     /\ Halt("arith", d.ins, memory)

\* The same on int.  INT_MIN / -1 overflows: it traps (x86) or yields
\* quotient INT_MIN and remainder 0 (AArch64).
DivResults(d) ==
  IF registers[d.rt] = Zero
  THEN {<<registers[d.rs], Zero>>}
  ELSE LET qr == SDivMod(registers[d.rs], registers[d.rt])
       IN  {<<qr[2], qr[1]>>}

DivTraps(d) ==
  \/ registers[d.rt] = Zero
  \/ registers[d.rs] = W(32768, 0) /\ registers[d.rt] = W(65535, 65535)

Div(d) ==
  \/ \E res \in DivResults(d) : SetHiLo(d, res[1], res[2])
  \/ /\ DivTraps(d)
     /\ Halt("arith", d.ins, memory)

Mtlo(d) == SetHiLo(d, hi, registers[d.rs])

Mthi(d) == SetHiLo(d, registers[d.rs], lo)

Jr(d) == Complete(d, registers, memory, registers[d.rs], hi, lo)

\* registers.at(rd) = ip + 4 is done first: ip is then read from the
\* registers as they are after it
Jalr(d) ==
  Complete(d, SetReg(d.rd, Next4), memory, SetReg(d.rd, Next4)[d.rs], hi, lo)

Syscall(d) == Complete(d, registers, memory, Next4, hi, lo)

\* Variant: a function without a case is skipped
UnknownFunctionSkips(d) == Complete(d, registers, memory, Next4, hi, lo)

\* default: "Unknown function", exit(1)
UnknownFunction(d) == Halt("decode", d.ins, memory)

\* default: "Unknown opcode", exit(1)
UnknownOpcode(d) == Halt("decode", d.ins, memory)

\* switch (extract(instruction, FN))
RTypes(d) ==
  CASE d.fn = 0  -> Sll(d)
    [] d.fn = 2  -> Srl(d)
    [] d.fn = 41 -> Sltu(d)
    [] d.fn = 42 -> Slt(d)
    [] d.fn = 33 -> Addu(d)
    [] d.fn = 32 -> Add(d)
    [] d.fn = 25 -> Multu(d)
    [] d.fn = 24 -> Mult(d)
    [] d.fn = 27 -> Divu(d)
    [] d.fn = 26 -> Div(d)
    [] d.fn = 8  -> Jr(d)
    [] d.fn = 9  -> Jalr(d)
    [] d.fn = 36 -> And(d)
    [] d.fn = 37 -> Or(d)
    [] d.fn = 39 -> Nor(d)
    [] d.fn = 38 -> Xor(d)
    [] d.fn = 19 -> Mtlo(d)
    [] d.fn = 17 -> Mthi(d)
    [] d.fn = 16 -> Mfhi(d)
    [] d.fn = 18 -> Mflo(d)
    [] d.fn = 12 -> Syscall(d)
    [] OTHER     -> UnknownFunction(d)

\* switch (extract(instruction, OP))
Dispatch(d) ==
  CASE d.op = 2  -> J(d)
    [] d.op = 3  -> Jal(d)
    [] d.op = 32 -> Lb(d)
    [] d.op = 36 -> Lbu(d)
    [] d.op = 33 -> Lh(d)
    [] d.op = 37 -> Lhu(d)
    [] d.op = 35 -> Lw(d)
    [] d.op = 15 -> Lui(d)
    [] d.op = 40 -> Sb(d)
    [] d.op = 41 -> Sh(d)
    [] d.op = 43 -> Sw(d)
    [] d.op = 8  -> Addi(d)
    [] d.op = 9  -> Addiu(d)
    [] d.op = 6  -> Blez(d)
    [] d.op = 7  -> Bgtz(d)
    [] d.op = 4  -> Beq(d)
    [] d.op = 5  -> Bne(d)
    [] d.op = 14 -> Xori(d)
    [] d.op = 0  -> RTypes(d)
    [] OTHER     -> UnknownOpcode(d)

\* Variant: the loop bound tested with <=
CyclingOnceMore == status = "running" /\ i <= MaxCycles

\* The loop of execute() is about to call cycle()
Cycling == status = "running" /\ i < MaxCycles

\* cycle(): instruction = fetch(), then the dispatch on its opcode
Cycle ==
  /\ Cycling
  /\ FetchOk
  /\ \E d \in {Decode(fetch)} : Dispatch(d)

\* cycle() when an at() of fetch() throws
FetchFault ==
  /\ Cycling
  /\ ~FetchOk
  /\ Halt("memory", Zero, memory)

\* The loop of execute() ends: execute() returns
ExecuteReturn ==
  /\ status = "running"
  /\ i >= MaxCycles
  /\ status' = "returned"
  /\ UNCHANGED <<registers, memory, ip, hi, lo, i, error, log>>

\* ------------------------------------------------------------------------
\* The binary images load() reads: big-endian MIPS I programs
\* ------------------------------------------------------------------------

\* A 16-bit immediate field holding the signed value n
Imm(n) == (n + B16) % B16

\* The three encodings: R [op=0, rs, rt, rd, shamt, func], I [op, rs, rt,
\* immediate], J [op, addr]
EncR(s, t, d, sh, f) == W((s * 32) + t, (d * 2048) + (sh * 64) + f)
EncI(o, s, t, im) == W((o * 1024) + (s * 32) + t, im)
EncJ(o, target) == W((o * 1024) + (target \div B16), target % B16)

Nop == EncR(0, 0, 0, 0, 0)

RECURSIVE Nops(_)
Nops(n) == IF n = 0 THEN <<>> ELSE <<Nop>> \o Nops(n - 1)

\* The four bytes of a word of the file, most significant first
WordBytes(w) == <<w[1] \div B8, w[1] % B8, w[2] \div B8, w[2] % B8>>

RECURSIVE CodeBytes(_)
CodeBytes(code) ==
  IF code = <<>> THEN <<>>
  ELSE WordBytes(Head(code)) \o CodeBytes(Tail(code))

\* The vector after load() of the file that holds zero bytes up to byte base,
\* then the words of code, then the bytes of data, then pad zero bytes
Image(base, code, data, pad) ==
  [size  |-> Add32(base, Lit((4 * Len(code)) + Len(data) + pad)),
   base  |-> ToInt(base),
   bytes |-> CodeBytes(code) \o data]

\* How many of the operand values, data words and shift amounts below the
\* programs range over
NumVals == 6
NumData == 3

\* Operand values, each as the <<immediate, shift function, shift amount>> of
\* the pair  addiu r, $0, immediate ; sll/srl r, r, amount  that builds it:
\* 0, 1, 0xFFFFFFFF, 0x80000000, 0x7FFFFFFF, 0x0000FFFF, 0x00010000, 3
ValTable ==
  << <<0, 0, 0>>, <<1, 0, 0>>, <<-1, 0, 0>>, <<1, 0, 31>>, <<-1, 2, 1>>,
     <<-1, 2, 16>>, <<1, 0, 16>>, <<3, 0, 0>> >>

Vals == 1..NumVals

ValCode(r, k) ==
  <<EncI(9, 0, r, Imm(ValTable[k][1])),
    EncR(0, r, r, ValTable[k][3], ValTable[k][2])>>

\* Data words, as their four bytes: DE AD BE EF, 7F 01 80 FF, 00 00 00 00,
\* 80 00 00 00
DataTable ==
  << <<222, 173, 190, 239>>, <<127, 1, 128, 255>>, <<0, 0, 0, 0>>,
     <<128, 0, 0, 0>> >>

\* $1 = a, $2 = b, then every register-to-register case on them
AluProgram(a, b) ==
  ValCode(1, a) \o ValCode(2, b) \o
  <<EncR(1, 2, 3, 0, 41), EncR(1, 2, 4, 0, 42),      \* sltu, slt
    EncR(1, 2, 5, 0, 33), EncR(1, 2, 6, 0, 32),      \* addu, add
    EncR(1, 2, 0, 0, 25),                            \* multu
    EncR(0, 0, 7, 0, 16), EncR(0, 0, 8, 0, 18),      \* mfhi, mflo
    EncR(1, 2, 0, 0, 24),                            \* mult
    EncR(0, 0, 9, 0, 16), EncR(0, 0, 10, 0, 18),     \* mfhi, mflo
    EncR(1, 2, 11, 0, 36), EncR(1, 2, 12, 0, 37),    \* and, or
    EncR(1, 2, 13, 0, 39), EncR(1, 2, 14, 0, 38),    \* nor, xor
    EncR(1, 0, 0, 0, 19), EncR(2, 0, 0, 0, 17),      \* mtlo, mthi
    EncR(0, 0, 0, 0, 12),                            \* syscall
    EncR(1, 2, 0, 0, 27), EncR(1, 2, 0, 0, 26)>>     \* divu, div

\* $1 = a, $2 = b, then the branch o on them at ip = 0x20
BranchProgram(o, a, b, im) ==
  ValCode(1, a) \o ValCode(2, b) \o Nops(4) \o <<EncI(o, 1, 2, Imm(im))>>
  \o Nops(2)

BranchImms == {-2, 1, -32768}

\* $1 = 1, then bne $0, $1, -2 at ip = 0x20
BranchBack ==
  <<EncI(9, 0, 1, 1)>> \o Nops(7) \o <<EncI(5, 0, 1, Imm(-2))>>

\* j or jal to word t of the 256 MB region, after a nop
JumpProgram(o, t) == <<Nop, EncJ(o, t), Nop, Nop>>

JumpTargets == {0, 3, 67108863}

\* A call and its return: jal to the jr $31 at word 4 (of the region)
CallReturn == <<EncJ(3, 4), EncI(9, 0, 8, 1), Nop, Nop, EncR(31, 0, 0, 0, 8)>>

\* The same with $31 overwritten before the return
CallClobber ==
  <<EncJ(3, 3), Nop, Nop, EncI(9, 0, 31, 8), EncR(31, 0, 0, 0, 8)>>

\* $1 = target, then jalr d, $1
JalrProgram(d, target) ==
  <<EncI(9, 0, 1, target), EncR(1, 0, d, 0, 9), Nop, Nop, Nop>>

\* Loads and stores on a data word placed after the code, at byte 0x60
MemProgram ==
  <<EncI(35, 0, 1, 96),                       \* lw  $1, 96($0)
    EncI(43, 0, 1, 104),                      \* sw  $1, 104($0)
    EncI(35, 0, 2, 104),                      \* lw  $2, 104($0)
    EncI(32, 0, 3, 96),                       \* lb  $3, 96($0)
    EncI(40, 0, 3, 108),                      \* sb  $3, 108($0)
    EncI(32, 0, 4, 99),                       \* lb  $4, 99($0)
    EncI(40, 0, 4, 109),                      \* sb  $4, 109($0)
    EncI(36, 0, 5, 96),                       \* lbu $5, 96($0)
    EncI(33, 0, 6, 96),                       \* lh  $6, 96($0)
    EncI(37, 0, 7, 96),                       \* lhu $7, 96($0)
    EncI(33, 0, 8, 98),                       \* lh  $8, 98($0)
    EncI(37, 0, 9, 98),                       \* lhu $9, 98($0)
    EncI(41, 0, 1, 112),                      \* sh  $1, 112($0)
    EncI(9, 0, 10, 112),                      \* addiu $10, $0, 112
    EncI(32, 10, 11, Imm(-16)),               \* lb  $11, -16($10)
    EncI(33, 10, 12, Imm(-14)),               \* lh  $12, -14($10)
    EncI(35, 10, 13, Imm(-16)),               \* lw  $13, -16($10)
    EncI(43, 10, 13, Imm(-12)),               \* sw  $13, -12($10)
    EncI(35, 10, 14, Imm(-12)),               \* lw  $14, -12($10)
    EncI(36, 10, 15, Imm(-16)),               \* lbu $15, -16($10)
    EncI(37, 10, 16, Imm(-16))>>              \* lhu $16, -16($10)
  \o Nops(3)

\* $1 = 0xFFFFFFFF, then the load or store o at off($0) in a file of 16 bytes
EdgeProgram(o, off) == <<EncI(9, 0, 1, Imm(-1)), EncI(o, 0, 1, Imm(off)), Nop>>

EdgeOps == {32, 33, 35, 36, 37, 40, 41, 43}

EdgeOffsets == {12, 13, 14, 15, 16, -1}

\* lui t, im ; ori t, t, im2
LuiOri(t, im, im2) == <<EncI(15, 0, t, im), EncI(13, t, t, im2), Nop>>

\* $1 = a, then xori $2, $1, im
XoriProgram(a, im) == ValCode(1, a) \o <<EncI(14, 1, 2, im), Nop>>

\* $1 = a, $2 = b, then the function f on them
FnProgram(f, a, b) ==
  ValCode(1, a) \o ValCode(2, b) \o <<EncR(1, 2, 3, 1, f), Nop>>

\* sra, sllv, srlv, srav, sub, subu
OtherFns == {3, 4, 6, 7, 34, 35}

\* One instruction, then a nop
Single(w) == <<w, Nop>>

Singles ==
  {EncI(9, 0, 8, 5),        \* addiu $8, $0, 5
   EncI(9, 0, 0, 5),        \* addiu $0, $0, 5
   EncI(8, 0, 1, 5),        \* addi  $1, $0, 5
   EncI(15, 0, 1, 4660),    \* lui   $1, 0x1234
   EncR(0, 0, 0, 0, 9),     \* jalr  $0, $0
   EncI(63, 0, 0, 0)}       \* no such opcode

\* $1 = 1, then a word that no case decodes: opcode 63, opcode 1 (the
\* REGIMM branches), opcode 13, function 63, function 1
UnknownProgram(w) == ValCode(1, 2) \o <<w, Nop>>

Unknowns ==
  {EncI(63, 1, 2, 7), EncI(1, 1, 0, 2), EncI(13, 1, 2, 7),
   EncR(1, 1, 2, 0, 63), EncR(1, 1, 2, 0, 1)}

\* HI = 7 and LO = 9, then stores, loads, immediates, branches, jumps,
\* mfhi, mflo, syscall and addi; the data are at bytes 160 to 167
HiLoProgram ==
  <<EncI(9, 0, 1, 7),        EncR(1, 0, 0, 0, 17),    \* addiu $1, 7; mthi $1
    EncI(9, 0, 2, 9),        EncR(2, 0, 0, 0, 19),    \* addiu $2, 9; mtlo $2
    EncI(43, 0, 1, 160),     EncI(35, 0, 3, 160),     \* sw, lw
    EncI(40, 0, 2, 164),     EncI(32, 0, 4, 164),     \* sb, lb
    EncI(36, 0, 5, 164),     EncI(41, 0, 2, 166),     \* lbu, sh
    EncI(33, 0, 6, 166),     EncI(37, 0, 7, 166),     \* lh, lhu
    EncI(14, 1, 8, 1),       EncI(15, 0, 9, 1),       \* xori, lui
    EncR(1, 2, 10, 0, 42),   EncI(4, 0, 0, 1),        \* slt; beq $0, $0, 1
    Nop,                     EncI(5, 1, 2, 1),        \* bne $1, $2, 1
    Nop,                     EncI(6, 0, 0, 1),        \* blez $0, 1
    Nop,                     EncI(7, 1, 0, 1),        \* bgtz $1, 1
    Nop,                     EncJ(3, 25),             \* jal 25
    Nop,                     EncI(9, 0, 12, 116),     \* addiu $12, 116
    EncR(12, 0, 0, 0, 8),    Nop,                     \* jr $12
    Nop,                     EncJ(2, 31),             \* j 31
    Nop,                     EncR(0, 0, 13, 0, 16),   \* mfhi $13
    EncR(0, 0, 14, 0, 18),   EncR(0, 0, 0, 0, 12),    \* mflo $14; syscall
    EncI(8, 0, 15, 1)>>                               \* addi $15, $0, 1

LowBase == Zero
HighBase == W(4096, 0)      \* 0x10000000

Images ==
  {Image(LowBase, AluProgram(a, b), <<>>, 0) : a \in Vals, b \in Vals}
  \cup {Image(LowBase, BranchProgram(o, a, b, im), <<>>, 0) :
          o \in {4, 5}, a \in Vals, b \in 1..2, im \in BranchImms}
  \cup {Image(LowBase, BranchProgram(o, a, 1, im), <<>>, 0) :
          o \in {6, 7}, a \in Vals, im \in BranchImms}
  \cup {Image(LowBase, BranchBack, <<>>, 0)}
  \cup {Image(base, JumpProgram(o, t), <<>>, 0) :
          base \in {LowBase, HighBase}, o \in {2, 3}, t \in JumpTargets}
  \cup {Image(base, code, <<>>, 0) :
          base \in {LowBase, HighBase}, code \in {CallReturn, CallClobber}}
  \cup {Image(LowBase, JalrProgram(d, target), <<>>, 0) :
          d \in {0, 1, 31}, target \in {8, 14}}
  \cup {Image(LowBase, MemProgram, DataTable[d], pad) :
          d \in 1..NumData, pad \in {28, B16}}
  \cup {Image(LowBase, EdgeProgram(o, off), <<>>, 4) :
          o \in EdgeOps, off \in EdgeOffsets}
  \cup {Image(LowBase, LuiOri(t, im, im2), <<>>, 0) :
          t \in {1, 8}, im \in {0, 4660, 32768, 65535}, im2 \in {22136, 65535}}
  \cup {Image(LowBase, XoriProgram(a, im), <<>>, 0) :
          a \in Vals, im \in {1, 32769, 65535}}
  \cup {Image(LowBase, FnProgram(f, a, 2), <<>>, 0) : f \in OtherFns, a \in Vals}
  \cup {Image(LowBase, Single(w), <<>>, 0) : w \in Singles}
  \cup {Image(LowBase, UnknownProgram(w), <<>>, 0) : w \in Unknowns}
  \cup {Image(LowBase, HiLoProgram, <<>>, 28)}

\* ------------------------------------------------------------------------
\* The driver: construct, load, execute
\* ------------------------------------------------------------------------

EntryPoints == {LowBase, HighBase}

\* VirtualMachine(ip): registers, hi and lo zero, memory empty
Init ==
  /\ registers = [r \in 0..31 |-> Zero]
  /\ memory = [size |-> Zero, base |-> 0, bytes |-> <<>>]
  /\ ip \in EntryPoints
  /\ hi = Zero
  /\ lo = Zero
  /\ i = 0
  /\ status = "constructed"
  /\ error = "none"
  /\ log = <<>>

\* load(path): memory is resized to the file and filled from it
Load ==
  /\ status = "constructed"
  /\ \E img \in Images : memory' = img
  /\ status' = "loaded"
  /\ UNCHANGED <<registers, ip, hi, lo, i, error, log>>

\* execute() is called and enters its loop
Execute ==
  /\ status \in {"constructed", "loaded"}
  /\ status' = "running"
  /\ i' = 0
  /\ UNCHANGED <<registers, memory, ip, hi, lo, error, log>>

Next == Load \/ Execute \/ Cycle \/ FetchFault \/ ExecuteReturn

Spec == Init /\ [][Next]_vars

\* execute() is one sequential loop on one thread: once called, it goes on
\* to its next cycle, to its return or to the end of the process.  Whether
\* load() and execute() are called is up to the caller.
Running == Cycle \/ FetchFault \/ ExecuteReturn

\* execute() has a step to take exactly while it is running
RunningEnabled == (ENABLED <<Running>>_vars) <=> (status = "running")

\* Weak fairness of Running: WF_vars(Running) with ENABLED <<Running>>_vars
\* written as the state predicate that RunningEnabled shows it equal to
RunningFair == []<>(status # "running") \/ []<><<Running>>_vars

FairSpec == Spec /\ RunningFair

\* ------------------------------------------------------------------------
\* Properties.  They read the log: Last is the cycle that led to the current
\* state, so the state before it is Last.pc, Last.R, Last.hi, Last.lo,
\* Last.mem and the state after it is ip, registers, hi, lo, memory.  The
\* fields of an instruction word are taken here by division, as the
\* encodings of the MIPS I manual define them.
\* ------------------------------------------------------------------------

Ran == log # <<>>
Last == log[Len(log)]

OpOf(w) == w[1] \div 1024
RsOf(w) == (w[1] \div 32) % 32
RtOf(w) == w[1] % 32
RdOf(w) == w[2] \div 2048
FnOf(w) == w[2] % 64
ImmOf(w) == w[2]
TargetOf(w) == ((w[1] % 1024) * B16) + w[2]

\* The value of a 16-bit and of an 8-bit field read as two's complement
Signed16(x) == IF x >= B15 THEN Neg32(Lit(B16 - x)) ELSE Lit(x)
Signed8(x) == IF x >= 128 THEN Neg32(Lit(B8 - x)) ELSE Lit(x)

Plus4(p) == Add32(p, Lit(4))

\* rs + sign_extend(imm16) of a logged cycle
EffAddr(e) == Add32(e.R[RsOf(e.ins)], Signed16(ImmOf(e.ins)))

\* A logged cycle that ran to completion on opcode o, or on function f
DidOp(e, o) == e.done /\ OpOf(e.ins) = o
DidFn(e, f) == e.done /\ OpOf(e.ins) = 0 /\ FnOf(e.ins) = f

IsBranch(w) == OpOf(w) \in {4, 5, 6, 7}
IsJump(w) == OpOf(w) \in {2, 3} \/ (OpOf(w) = 0 /\ FnOf(w) \in {8, 9})

\* The state after the k-th logged cycle
PostR(k) == IF k < Len(log) THEN log[k + 1].R ELSE registers
PostMem(k) == IF k < Len(log) THEN log[k + 1].mem ELSE memory

\* C1: a completed cycle on an instruction that is neither a branch nor a
\* jump, executed at p, leaves the program counter at p + 4.
C1_SequentialAdvance ==
  (Ran /\ Last.done /\ ~IsBranch(Last.ins) /\ ~IsJump(Last.ins))
    => ip = Plus4(Last.pc)

\* C2: register 0 holds zero in every reachable state.
C2_RegisterZero == registers[0] = Zero

\* p + 4 + (sign_extend(i) << 2) modulo 2^32
TakenTarget(p, im) ==
  LET off == Signed16(im)
      off4 == Add32(Add32(off, off), Add32(off, off))
  IN  Add32(Plus4(p), off4)

\* C3: beq, bne, blez and bgtz at p with immediate i leave the program
\* counter at p + 4 + (sign_extend(i) << 2) when taken and at p + 4 when not,
\* and change no register, nor HI, LO or memory; beq is taken exactly when
\* the two registers are equal and bne exactly when they differ.
C3_Branch ==
  (Ran /\ Last.done /\ IsBranch(Last.ins)) =>
    LET target == TakenTarget(Last.pc, ImmOf(Last.ins))
        same == Last.R[RsOf(Last.ins)] = Last.R[RtOf(Last.ins)]
    IN  /\ ip \in {target, Plus4(Last.pc)}
        /\ OpOf(Last.ins) = 4 => ip = (IF same THEN target ELSE Plus4(Last.pc))
        /\ OpOf(Last.ins) = 5 => ip = (IF same THEN Plus4(Last.pc) ELSE target)
        /\ registers = Last.R
        /\ hi = Last.hi
        /\ lo = Last.lo
        /\ memory = Last.mem

\* A branch with a negative immediate was taken backwards: bne with -2 at
\* 0x20 led to 0x1C
C3_Witness ==
  /\ Ran
  /\ DidOp(Last, 5)
  /\ Last.pc = Lit(32)
  /\ ImmOf(Last.ins) = B16 - 2
  /\ ip = Lit(28)

\* C4: j and jal at p with target t leave the program counter at
\* (p & 0xF0000000) | (t << 2): the upper 4 bits are those of p and the
\* lower 2 bits are zero.
C4_Jump ==
  (Ran /\ Last.done /\ OpOf(Last.ins) \in {2, 3}) =>
    LET t4 == 4 * TargetOf(Last.ins)
        region == (Last.pc[1] \div 4096) * 4096
    IN  /\ ip = W(region + (t4 \div B16), t4 % B16)
        /\ ip[1] \div 4096 = Last.pc[1] \div 4096
        /\ ip[2] % 4 = 0

\* A jump executed in the region 0x1 to a target other than 0
C4_Witness ==
  /\ Ran
  /\ DidOp(Last, 2)
  /\ Last.pc[1] \div 4096 = 1
  /\ TargetOf(Last.ins) = 3
  /\ ip = W(4096, 12)

\* The k-th logged cycle is a jal whose link is still in $31 at the start of
\* every later logged cycle
LinkHeld(k) ==
  /\ DidOp(log[k], 3)
  /\ \A m \in (k + 1)..Len(log) : log[m].R[31] = Plus4(log[k].pc)

\* C5: jal at p leaves $31 = p + 4, taken from the program counter before it
\* is rewritten, and a later jr $31, with $31 not overwritten in between,
\* leaves the program counter at p + 4.
C5_CallReturn ==
  /\ (Ran /\ DidOp(Last, 3)) => registers[31] = Plus4(Last.pc)
  /\ (Ran /\ DidFn(Last, 8) /\ RsOf(Last.ins) = 31) =>
       \A k \in 1..(Len(log) - 1) : LinkHeld(k) => ip = Plus4(log[k].pc)

\* A jr $31 returned to the word after a jal executed in the region 0x1
C5_Witness ==
  /\ Ran
  /\ DidFn(Last, 8)
  /\ RsOf(Last.ins) = 31
  /\ \E k \in 1..(Len(log) - 1) :
       /\ LinkHeld(k)
       /\ log[k].pc = W(4096, 0)
       /\ ip = W(4096, 4)

\* The logged cycle e is a completed store that writes a byte of a..a+3
StoresInto(e, a) ==
  /\ e.done
  /\ OpOf(e.ins) \in {40, 41, 43}
  /\ \E x \in 0..3 : \E y \in 0..3 :
       /\ x < (CASE OpOf(e.ins) = 40 -> 1 [] OpOf(e.ins) = 41 -> 2 [] OTHER -> 4)
       /\ Add32(EffAddr(e), Lit(x)) = Add32(a, Lit(y))

\* The k-th logged cycle is an sw to a 4-byte-aligned address and no later
\* logged cycle before the last stores into its four bytes
WordKept(k) ==
  /\ DidOp(log[k], 43)
  /\ EffAddr(log[k])[2] % 4 = 0
  /\ \A m \in (k + 1)..(Len(log) - 1) : ~StoresInto(log[m], EffAddr(log[k]))

\* C6: sw of the word w to the aligned address a lays w out big endian at
\* a..a+3, and a later lw from a, with no store into a..a+3 in between,
\* sets its destination register to w.
C6_WordRoundTrip ==
  /\ (Ran /\ DidOp(Last, 43) /\ EffAddr(Last)[2] % 4 = 0) =>
       LET a == EffAddr(Last)
           w == Last.R[RtOf(Last.ins)]
       IN  /\ MemGet(memory, a) = w[1] \div B8
           /\ MemGet(memory, Add32(a, Lit(1))) = w[1] % B8
           /\ MemGet(memory, Add32(a, Lit(2))) = w[2] \div B8
           /\ MemGet(memory, Add32(a, Lit(3))) = w[2] % B8
  /\ (Ran /\ DidOp(Last, 35)) =>
       \A k \in 1..(Len(log) - 1) :
         (WordKept(k) /\ EffAddr(log[k]) = EffAddr(Last))
           => registers[RtOf(Last.ins)] = log[k].R[RtOf(log[k].ins)]

\* An lw read back a word with its top bit set that an sw had stored
C6_Witness ==
  /\ Ran
  /\ DidOp(Last, 35)
  /\ \E k \in 1..(Len(log) - 1) :
       /\ WordKept(k)
       /\ EffAddr(log[k]) = EffAddr(Last)
       /\ log[k].R[RtOf(log[k].ins)] = W(57005, 48879)
       /\ registers[RtOf(Last.ins)] = W(57005, 48879)

\* The bytes of the two vectors agree everywhere but at index b
SameBut(m1, m2, b) ==
  /\ m1.size = m2.size
  /\ \A x \in (m1.base..(m1.base + Len(m1.bytes) - 1))
              \cup (m2.base..(m2.base + Len(m2.bytes) - 1)) :
       Lit(x) # b => MemGet(m1, Lit(x)) = MemGet(m2, Lit(x))

\* The k-th logged cycle is an lb into register t, and at the start of every
\* later logged cycle t still holds what it loaded and the byte it read is
\* as it was
ByteHeld(k, t) ==
  /\ DidOp(log[k], 32)
  /\ RtOf(log[k].ins) = t
  /\ \A m \in (k + 1)..Len(log) :
       /\ log[m].R[t] = PostR(k)[t]
       /\ MemGet(log[m].mem, EffAddr(log[k])) = MemGet(log[k].mem, EffAddr(log[k]))

\* C7: lb from a sets its destination to the byte at a sign-extended to 32
\* bits, and an sb of that register to another address b leaves MEM[b] =
\* MEM[a] and changes no other byte.
C7_ByteRoundTrip ==
  /\ (Ran /\ DidOp(Last, 32)) =>
       registers[RtOf(Last.ins)] = Signed8(MemGet(Last.mem, EffAddr(Last)))
  /\ (Ran /\ DidOp(Last, 40)) =>
       \A k \in 1..(Len(log) - 1) :
         (ByteHeld(k, RtOf(Last.ins)) /\ EffAddr(log[k]) # EffAddr(Last)) =>
           /\ MemGet(memory, EffAddr(Last)) = MemGet(memory, EffAddr(log[k]))
           /\ MemGet(memory, EffAddr(Last)) = MemGet(log[k].mem, EffAddr(log[k]))
           /\ SameBut(memory, Last.mem, EffAddr(Last))

\* An sb stored, at another address, a byte with its top bit set that an lb
\* had loaded
C7_Witness ==
  /\ Ran
  /\ DidOp(Last, 40)
  /\ \E k \in 1..(Len(log) - 1) :
       /\ ByteHeld(k, RtOf(Last.ins))
       /\ EffAddr(log[k]) # EffAddr(Last)
       /\ MemGet(log[k].mem, EffAddr(log[k])) = 222
       /\ Last.R[RtOf(Last.ins)] = W(65535, 65502)
       /\ MemGet(Last.mem, EffAddr(Last)) = 0
       /\ MemGet(memory, EffAddr(Last)) = 222

\* C8: mult leaves in HI and LO the upper and lower 32 bits of the signed
\* 64-bit product of the two registers, multu those of the unsigned 64-bit
\* product, and mfhi and mflo copy HI and LO into their destination.
C8_Multiply ==
  /\ (Ran /\ DidFn(Last, 24)) =>
       <<hi, lo>> = SMul64(Last.R[RsOf(Last.ins)], Last.R[RtOf(Last.ins)])
  /\ (Ran /\ DidFn(Last, 25)) =>
       <<hi, lo>> = UMul64(Last.R[RsOf(Last.ins)], Last.R[RtOf(Last.ins)])
  /\ (Ran /\ DidFn(Last, 16)) => registers[RdOf(Last.ins)] = Last.hi
  /\ (Ran /\ DidFn(Last, 18)) => registers[RdOf(Last.ins)] = Last.lo

\* a < b as two's-complement integers: the order of unsigned with the top
\* bit flipped
SignedLess(a, b) ==
  ULt(<<(a[1] + B15) % B16, a[2]>>, <<(b[1] + B15) % B16, b[2]>>)

\* C9: slt sets its destination to 1 exactly when R[rs] < R[rt] as signed
\* integers, sltu exactly when R[rs] < R[rt] as unsigned integers, and to 0
\* otherwise.
C9_SetLess ==
  /\ (Ran /\ DidFn(Last, 42)) =>
       registers[RdOf(Last.ins)] =
         (IF SignedLess(Last.R[RsOf(Last.ins)], Last.R[RtOf(Last.ins)])
          THEN Lit(1) ELSE Lit(0))
  /\ (Ran /\ DidFn(Last, 41)) =>
       registers[RdOf(Last.ins)] =
         (IF ULt(Last.R[RsOf(Last.ins)], Last.R[RtOf(Last.ins)])
          THEN Lit(1) ELSE Lit(0))

\* slt on 0xFFFFFFFF and 1 gave 1 where sltu on them had given 0
C9_Witness ==
  /\ Len(log) >= 2
  /\ DidFn(Last, 42)
  /\ Last.R[RsOf(Last.ins)] = W(65535, 65535)
  /\ Last.R[RtOf(Last.ins)] = Lit(1)
  /\ registers[RdOf(Last.ins)] = Lit(1)
  /\ DidFn(log[Len(log) - 1], 41)
  /\ log[Len(log) - 1].R[1] = W(65535, 65535)
  /\ log[Len(log) - 1].R[2] = Lit(1)
  /\ Last.R[RdOf(log[Len(log) - 1].ins)] = Lit(0)

\* C10: lui rt, imm sets R[rt] = imm << 16, and an ori rt, rt, imm2 that
\* follows it completes and leaves R[rt] = (imm << 16) | imm2; neither
\* cycle halts.
C10_LuiOri ==
  /\ (Ran /\ OpOf(Last.ins) = 15) =>
       /\ Last.done
       /\ registers[RtOf(Last.ins)] = W(ImmOf(Last.ins), 0)
  /\ (Len(log) >= 2 /\ DidOp(log[Len(log) - 1], 15) /\ OpOf(Last.ins) = 13
      /\ RsOf(Last.ins) = RtOf(Last.ins)
      /\ RtOf(Last.ins) = RtOf(log[Len(log) - 1].ins)) =>
       /\ Last.done
       /\ registers[RtOf(Last.ins)] = W(ImmOf(log[Len(log) - 1].ins), ImmOf(Last.ins))

\* C11: execute() stops only on a fatal error: whenever it has returned, a
\* decode error or a memory fault has occurred.
C11_RunsUntilHalt == status = "returned" => error \in {"decode", "memory"}

\* The case labels of the two switches of cycle()
DispatchOpcodes ==
  {0, 2, 3, 4, 5, 6, 7, 8, 9, 14, 15, 32, 33, 35, 36, 37, 40, 41, 43}
DispatchFunctions ==
  {0, 2, 8, 9, 12, 16, 17, 18, 19, 24, 25, 26, 27, 32, 33, 36, 37, 38, 39,
   41, 42}

Unknown(w) ==
  \/ OpOf(w) \notin DispatchOpcodes
  \/ OpOf(w) = 0 /\ FnOf(w) \notin DispatchFunctions

\* The logged cycle e was cut short by a fetch that failed
FetchFailed(e) ==
  \E k \in 0..3 : ~ULt(Add32(e.pc, Lit(k)), e.mem.size)

\* C12: a cycle that fetches a word whose opcode, or whose function under
\* opcode 0, has no case ends halted on a decode error with registers, HI,
\* LO, PC and memory as they were before it, and no cycle follows it.
C12_DecodeError ==
  /\ (Ran /\ ~FetchFailed(Last) /\ Unknown(Last.ins)) =>
       /\ ~Last.done
       /\ status = "halted"
       /\ error = "decode"
       /\ registers = Last.R
       /\ hi = Last.hi
       /\ lo = Last.lo
       /\ ip = Last.pc
       /\ memory = Last.mem
  /\ \A k \in 1..(Len(log) - 1) :
       ~FetchFailed(log[k]) => ~Unknown(log[k].ins)

\* A word with function 63 halted the machine after $1 had been set to 1
C12_Witness ==
  /\ Len(log) >= 3
  /\ OpOf(Last.ins) = 0
  /\ FnOf(Last.ins) = 63
  /\ status = "halted"
  /\ error = "decode"
  /\ registers[1] = Lit(1)
  /\ ip = Lit(8)

\* The bytes a load or store moves
IsMemOp(w) == OpOf(w) \in {32, 33, 35, 36, 37, 40, 41, 43}
WidthOf(w) ==
  CASE OpOf(w) \in {32, 36, 40} -> 1
    [] OpOf(w) \in {33, 37, 41} -> 2
    [] OTHER                    -> 4

\* The logged cycle e fetches from, loads from or stores to a byte index at
\* or above the size of memory
TouchesOutside(e) ==
  \/ FetchFailed(e)
  \/ /\ IsMemOp(e.ins)
     /\ \E k \in 0..(WidthOf(e.ins) - 1) :
          ~ULt(Add32(EffAddr(e), Lit(k)), e.mem.size)

\* C13: the size of memory never changes during execution, and a cycle
\* whose fetch, load or store touches a byte index at or above it ends
\* halted on a memory fault with registers, PC and every memory byte as
\* they were before the cycle.
C13_MemoryFault ==
  /\ Ran => memory.size = log[1].mem.size
  /\ (Ran /\ TouchesOutside(Last)) =>
       /\ ~Last.done
       /\ status = "halted"
       /\ error = "memory"
       /\ registers = Last.R
       /\ ip = Last.pc
       /\ memory = Last.mem

\* |a| of a two's-complement word, as unsigned
Abs32(a) == IF a[1] >= B15 THEN Neg32(a) ELSE a

\* q and r are the unsigned quotient and remainder of a by b # 0:
\* a = q * b + r with r < b
IsUnsignedDivision(a, b, q, r) ==
  /\ ULt(r, b)
  /\ ~ULt(a, r)
  /\ UMul64(q, b) = <<Zero, Sub32(a, r)>>

\* q and r are the signed quotient and remainder of a by b # 0, truncating
\* toward zero: a = q * b + r with |r| < |b| and r zero or of the sign of a
IsSignedDivision(a, b, q, r) ==
  /\ ULt(Abs32(r), Abs32(b))
  /\ r = Zero \/ ((r[1] >= B15) <=> (a[1] >= B15))
  /\ SMul64(q, b) =
       <<IF Sub32(a, r)[1] >= B15 THEN W(65535, 65535) ELSE Zero, Sub32(a, r)>>

\* C14: div and divu complete for every pair of operands: the cycle is not
\* cut short, PC advances by 4 and the general registers and memory are
\* unchanged; with a divisor other than 0 LO is the quotient and HI the
\* remainder, unsigned for divu and signed (truncating) for div.
C14_Divide ==
  (Ran /\ ~FetchFailed(Last) /\ OpOf(Last.ins) = 0
   /\ FnOf(Last.ins) \in {26, 27}) =>
    LET a == Last.R[RsOf(Last.ins)]
        b == Last.R[RtOf(Last.ins)]
    IN  /\ Last.done
        /\ status # "halted"
        /\ ip = Plus4(Last.pc)
        /\ registers = Last.R
        /\ memory = Last.mem
        /\ (b # Zero /\ FnOf(Last.ins) = 27) =>
             IsUnsignedDivision(a, b, lo, hi)
        /\ (b # Zero /\ FnOf(Last.ins) = 26
            /\ ~(a = W(32768, 0) /\ b = W(65535, 65535))) =>
             IsSignedDivision(a, b, lo, hi)

\* The part of C14 on divisors other than 0, overflow apart
C14_Quotients ==
  (Ran /\ DidFn(Last, 27) /\ Last.R[RtOf(Last.ins)] # Zero
     => IsUnsignedDivision(Last.R[RsOf(Last.ins)], Last.R[RtOf(Last.ins)],
                           lo, hi))
  /\ (Ran /\ DidFn(Last, 26) /\ Last.R[RtOf(Last.ins)] # Zero
      /\ ~(Last.R[RsOf(Last.ins)] = W(32768, 0)
           /\ Last.R[RtOf(Last.ins)] = W(65535, 65535))
     => IsSignedDivision(Last.R[RsOf(Last.ins)], Last.R[RtOf(Last.ins)],
                         lo, hi))

\* w > 0 as a two's-complement integer
SignedPositive(w) == w[1] < B15 /\ w # Zero

\* C15: bgtz sets PC to the branch target when R[rs] > 0 as a signed
\* integer and to PC + 4 otherwise; blez does the opposite, so that on
\* every R[rs] exactly one of the two takes the branch.
C15_SignedBranch ==
  /\ (Ran /\ ~FetchFailed(Last) /\ OpOf(Last.ins) = 7) =>
       /\ Last.done
       /\ ip = (IF SignedPositive(Last.R[RsOf(Last.ins)])
                THEN TakenTarget(Last.pc, ImmOf(Last.ins))
                ELSE Plus4(Last.pc))
  /\ (Ran /\ ~FetchFailed(Last) /\ OpOf(Last.ins) = 6) =>
       /\ Last.done
       /\ ip = (IF SignedPositive(Last.R[RsOf(Last.ins)])
                THEN Plus4(Last.pc)
                ELSE TakenTarget(Last.pc, ImmOf(Last.ins)))

\* The half of C15 on blez
C15_Blez ==
  (Ran /\ ~FetchFailed(Last) /\ OpOf(Last.ins) = 6) =>
    /\ Last.done
    /\ ip = (IF SignedPositive(Last.R[RsOf(Last.ins)])
             THEN Plus4(Last.pc)
             ELSE TakenTarget(Last.pc, ImmOf(Last.ins)))

\* C16: a load or store accesses the bytes from rs + sign_extend(imm16) on:
\* the cycle completes exactly when those bytes are below the size of
\* memory, a load then takes its low byte from the last of them (lw all
\* four) and a store puts the low byte of R[rt] in the last of them.
C16_EffectiveAddress ==
  (Ran /\ ~FetchFailed(Last) /\ IsMemOp(Last.ins)) =>
    LET ea == EffAddr(Last)
        n == WidthOf(Last.ins)
        end == Add32(ea, Lit(n - 1))
        o == OpOf(Last.ins)
        t == RtOf(Last.ins)
    IN  /\ Last.done <=> ~TouchesOutside(Last)
        /\ (Last.done /\ o \in {32, 33, 36, 37}) =>
             registers[t][2] % B8 = MemGet(Last.mem, end)
        /\ (Last.done /\ o = 35) =>
             registers[t] =
               <<(MemGet(Last.mem, ea) * B8)
                   + MemGet(Last.mem, Add32(ea, Lit(1))),
                 (MemGet(Last.mem, Add32(ea, Lit(2))) * B8)
                   + MemGet(Last.mem, end)>>
        /\ (Last.done /\ o \in {40, 41, 43}) =>
             MemGet(memory, end) = Last.R[t][2] % B8

\* The part of C16 on lb, lh, lw, sb, sh and sw
C16_SignedAddress ==
  (Ran /\ ~FetchFailed(Last) /\ OpOf(Last.ins) \in {32, 33, 35, 40, 41, 43}) =>
    LET ea == EffAddr(Last)
        end == Add32(ea, Lit(WidthOf(Last.ins) - 1))
        o == OpOf(Last.ins)
        t == RtOf(Last.ins)
    IN  /\ Last.done <=> ~TouchesOutside(Last)
        /\ (Last.done /\ o \in {32, 33}) =>
             registers[t][2] % B8 = MemGet(Last.mem, end)
        /\ (Last.done /\ o \in {40, 41, 43}) =>
             MemGet(memory, end) = Last.R[t][2] % B8

\* (MEM[a] << 8) | MEM[a + 1] in the memory m
ReadHalf(m, a) == (MemGet(m, a) * B8) + MemGet(m, Add32(a, Lit(1)))

\* C17: with both bytes at the effective address in bounds, lhu sets R[rt]
\* to the big-endian half-word there zero-extended and lh to the same
\* half-word sign-extended.
C17_HalfLoad ==
  (Ran /\ ~FetchFailed(Last) /\ OpOf(Last.ins) \in {33, 37}
   /\ ~TouchesOutside(Last)) =>
    /\ Last.done
    /\ registers[RtOf(Last.ins)] =
         (IF OpOf(Last.ins) = 37
          THEN Lit(ReadHalf(Last.mem, EffAddr(Last)))
          ELSE Signed16(ReadHalf(Last.mem, EffAddr(Last))))

\* The half of C17 on lh
C17_Lh ==
  (Ran /\ ~FetchFailed(Last) /\ OpOf(Last.ins) = 33
   /\ ~TouchesOutside(Last)) =>
    /\ Last.done
    /\ registers[RtOf(Last.ins)] =
         Signed16(ReadHalf(Last.mem, EffAddr(Last)))

\* x XOR y on 16-bit values, bit by bit
RECURSIVE XorField(_, _, _)
XorField(x, y, n) ==
  IF n = 0 THEN 0
  ELSE (2 * XorField(x \div 2, y \div 2, n - 1)) + ((x + y) % 2)

\* C18: xori sets R[rt] to R[rs] XOR the zero-extended immediate: the upper
\* 16 bits are those of R[rs], the lower 16 bits are XORed with the
\* immediate, and PC advances by 4.
C18_Xori ==
  (Ran /\ ~FetchFailed(Last) /\ OpOf(Last.ins) = 14) =>
    /\ Last.done
    /\ ip = Plus4(Last.pc)
    /\ registers[RtOf(Last.ins)] =
         <<Last.R[RsOf(Last.ins)][1],
           XorField(Last.R[RsOf(Last.ins)][2], ImmOf(Last.ins), 16)>>

\* The part of C18 on immediates below 0x8000
C18_XoriPositive ==
  (Ran /\ ~FetchFailed(Last) /\ OpOf(Last.ins) = 14
   /\ ImmOf(Last.ins) < B15) =>
    /\ Last.done
    /\ registers[RtOf(Last.ins)] =
         <<Last.R[RsOf(Last.ins)][1],
           XorField(Last.R[RsOf(Last.ins)][2], ImmOf(Last.ins), 16)>>

\* xori was run with an immediate below 0x8000 on a register with non-zero
\* halves
C18_PositiveReached ==
  /\ Ran
  /\ DidOp(Last, 14)
  /\ ImmOf(Last.ins) = 1
  /\ Last.R[RsOf(Last.ins)] = W(65535, 65535)
  /\ registers[RtOf(Last.ins)] = W(65535, 65534)

ShamtOf(w) == (w[2] \div 64) % 32

\* x >> n with the sign bit shifted in
Sra32(x, n) == IF x[1] >= B15 THEN Not32(Shr32(Not32(x), n)) ELSE Shr32(x, n)

\* sra, sllv, srlv, srav, sub, subu: the functions the instruction tables
\* list beside those in DispatchFunctions
ListedOnly == {3, 4, 6, 7, 34, 35}

\* What each of them leaves in R[rd], from the registers R before the cycle
ListedEffect(w, R) ==
  CASE FnOf(w) = 3 -> Sra32(R[RtOf(w)], ShamtOf(w))
    [] FnOf(w) = 4 -> Shl32(R[RtOf(w)], R[RsOf(w)][2] % 32)
    [] FnOf(w) = 6 -> Shr32(R[RtOf(w)], R[RsOf(w)][2] % 32)
    [] FnOf(w) = 7 -> Sra32(R[RtOf(w)], R[RsOf(w)][2] % 32)
    [] OTHER       -> Sub32(R[RsOf(w)], R[RtOf(w)])

\* C19: no cycle on a listed opcode, or on a listed function under opcode 0,
\* ends in a decode error; a cycle on sra, sllv, srlv, srav, sub or subu
\* completes, leaves its result in R[rd] and advances PC by 4.
C19_DispatchCovers ==
  /\ (Ran /\ ~FetchFailed(Last) /\ OpOf(Last.ins) \in DispatchOpcodes
      /\ (OpOf(Last.ins) = 0 =>
            FnOf(Last.ins) \in DispatchFunctions \cup ListedOnly)) =>
       ~(status = "halted" /\ error = "decode")
  /\ (Ran /\ ~FetchFailed(Last) /\ OpOf(Last.ins) = 0
      /\ FnOf(Last.ins) \in ListedOnly) =>
       /\ Last.done
       /\ ip = Plus4(Last.pc)
       /\ registers[RdOf(Last.ins)] = ListedEffect(Last.ins, Last.R)

\* The part of C19 on the opcodes and functions that have a case
C19_CasesDecode ==
  (Ran /\ ~FetchFailed(Last) /\ ~Unknown(Last.ins)) =>
    ~(status = "halted" /\ error = "decode")

\* C20: execute() performs at most 100 cycles, returns only after exactly
\* 100 completed cycles, and once called always ends, by its return or by
\* a fatal error.
C20_Terminates ==
  /\ [](/\ Len(log) <= 100
        /\ i <= 100
        /\ status = "returned" => (i = 100 /\ \A k \in 1..100 : log[k].done))
  /\ [](status = "running" => <>(status \in {"returned", "halted"}))

\* execute() returned from a program whose instruction leaves PC unchanged
C20_Witness ==
  /\ status = "returned"
  /\ Len(log) = 100
  /\ ip = Last.pc
  /\ \A k \in 1..100 : log[k].pc = ip

\* The low two bits of the word are zero
Aligned(w) == w[2] % 4 = 0

\* The logged cycle e is a jr or a jalr
IsRegisterJump(e) == OpOf(e.ins) = 0 /\ FnOf(e.ins) \in {8, 9}

\* What cuts a cycle short: a failed fetch, a word without a case, a load
\* or store outside memory (for lbu and lhu at the address they compute,
\* with the immediate zero-extended), or a division that traps
HaltCause(e) ==
  \/ FetchFailed(e)
  \/ Unknown(e.ins)
  \/ TouchesOutside(e)
  \/ /\ OpOf(e.ins) \in {36, 37}
     /\ \E k \in 0..(WidthOf(e.ins) - 1) :
          ~ULt(Add32(Add32(e.R[RsOf(e.ins)], Lit(ImmOf(e.ins))), Lit(k)),
               e.mem.size)
  \/ /\ OpOf(e.ins) = 0
     /\ FnOf(e.ins) \in {26, 27}
     /\ \/ e.R[RtOf(e.ins)] = Zero
        \/ e.R[RsOf(e.ins)] = W(32768, 0) /\ e.R[RtOf(e.ins)] = W(65535, 65535)

\* C21: from an entry PC that is a multiple of 4, PC is a multiple of 4
\* after every run of cycles without jr and jalr; a completed cycle other
\* than jr and jalr never takes PC from a multiple of 4 to another value;
\* and a cycle at a misaligned PC is cut short only for a cause that would
\* cut it short at any PC.
C21_Alignment ==
  /\ (Ran /\ Aligned(log[1].pc)
      /\ \A k \in 1..Len(log) : ~IsRegisterJump(log[k])) => Aligned(ip)
  /\ (Ran /\ Last.done /\ Aligned(Last.pc) /\ ~IsRegisterJump(Last))
       => Aligned(ip)
  /\ (Ran /\ ~Aligned(Last.pc) /\ ~Last.done) => HaltCause(Last)

\* A j in the upper region and a taken backward branch left PC aligned
C21_Witness ==
  /\ Ran
  /\ Last.done
  /\ \A k \in 1..Len(log) : ~IsRegisterJump(log[k])
  /\ Aligned(ip)
  /\ \/ OpOf(Last.ins) = 2 /\ Last.pc = W(4096, 4) /\ ip = W(4096, 12)
     \/ OpOf(Last.ins) = 5 /\ Last.pc = Lit(32) /\ ip = Lit(28)

\* A jalr to 14 made PC misaligned and the cycle at 14 completed
C21_MisalignedRuns ==
  /\ Len(log) >= 3
  /\ Last.done
  /\ Last.pc = Lit(14)
  /\ ip = Lit(18)
  /\ DidFn(log[Len(log) - 1], 9)

\* The functions under opcode 0 that may write HI, and LO
WritesHi(w) == OpOf(w) = 0 /\ FnOf(w) \in {24, 25, 26, 27, 17}
WritesLo(w) == OpOf(w) = 0 /\ FnOf(w) \in {24, 25, 26, 27, 19}

\* C22: HI and LO are zero until the first cycle; a cycle changes HI only
\* on mult, multu, div, divu and mthi, and LO only on mult, multu, div, divu
\* and mtlo; mfhi and mflo change nothing but R[rd] and PC.
C22_HiLoFrame ==
  /\ ~Ran => (hi = Zero /\ lo = Zero)
  /\ (Ran /\ ~WritesHi(Last.ins)) => hi = Last.hi
  /\ (Ran /\ ~WritesLo(Last.ins)) => lo = Last.lo
  /\ (Ran /\ (DidFn(Last, 16) \/ DidFn(Last, 18))) =>
       /\ memory = Last.mem
       /\ ip = Plus4(Last.pc)
       /\ \A r \in 0..31 :
            r # RdOf(Last.ins) => registers[r] = Last.R[r]

\* With HI = 7 and LO = 9, stores, loads, branches and jumps were run and
\* mflo then copied 9 into $14
C22_Witness ==
  /\ Len(log) >= 25
  /\ DidFn(Last, 18)
  /\ hi = Lit(7)
  /\ lo = Lit(9)
  /\ registers[14] = Lit(9)
  /\ registers[13] = Lit(7)
  /\ \E k \in 1..Len(log) : DidOp(log[k], 43) /\ log[k].hi = Lit(7)
  /\ \E k \in 1..Len(log) : DidOp(log[k], 3) /\ log[k].lo = Lit(9)
  /\ \E k \in 1..Len(log) : DidFn(log[k], 8) /\ log[k].lo = Lit(9)

====
